---- MODULE Spec2Model ----
(***************************************************************************)
(* buoyfinder: the HTTP handlers of src/buoyfinder.go as a state machine.  *)
(* A request is dispatched to a handler, which runs sequential code: it    *)
(* blocks on one upstream HTTP call at a time (station directory, station  *)
(* readings, chart service) and ends by writing one response.  Every       *)
(* action below is "the reply of the outstanding call arrives and the      *)
(* handler runs up to its next upstream call or to its response".          *)
(***************************************************************************)
EXTENDS Integers, Sequences, FiniteSets, TLC

VARIABLES req, now, served, resolving, fetched, dispatch, blend

vars == <<req, now, served, resolving, fetched, dispatch, blend>>

(***************************************************************************)
(* Bounds of the model.                                                    *)
(***************************************************************************)
\* clock ticks in one hour (time.Duration.Hours is measured in these)
TicksPerHour == 2
\* how far the clock may advance during a behaviour
MaxTicks == 1
\* how many requests a slot serves one after the other
MaxServed == 2

\* the request slots (goroutines net/http runs the handlers in)
Requests == {1, 2}

\* the clock at startup: two hours after the epoch
Epoch0 == 2 * TicksPerHour

(***************************************************************************)
(* Path values.  mux hands every route variable to the handler as a        *)
(* string; a variable the route does not have reads as "".                 *)
(***************************************************************************)
CoordInputs == {<<"0", "0">>, <<"2", "0">>, <<"x", "0">>, <<"0", "x">>}
StationInputs == {"s1", "s9"}
EpochInputs == {"0", "3", "9", "x"}

\* the numerals the model's path values can spell
Numeral == ("0" :> 0) @@ ("2" :> 2) @@ ("3" :> 3) @@ ("9" :> 9)

\* strconv.ParseFloat(s, 64) with the error dropped: 0 on a syntax error
ParseFloat(s) == IF s \in DOMAIN Numeral THEN Numeral[s] ELSE 0

\* a ParseInt that answers a syntax error with -1
ParseIntSentinel(s) == IF s \in DOMAIN Numeral THEN Numeral[s] ELSE -1

\* strconv.ParseInt(s, 10, 64) with the error dropped: 0 on a syntax error
ParseInt(s) == IF s \in DOMAIN Numeral THEN Numeral[s] ELSE 0

\* surfnerd.NewLocationForLatLong
NewLocationForLatLong(lat, lon) == [Latitude |-> lat, Longitude |-> lon]

\* the zero value of surfnerd.Location
ZeroLocation == [Latitude |-> 0, Longitude |-> 0]

(***************************************************************************)
(* The station directory (surfnerd.BuoyStations, decoded from the XML of   *)
(* surfnerd.ActiveBuoysURL) and the library lookups the handlers call.     *)
(***************************************************************************)
Station(id, lat, active) ==
    [StationID |-> id, Location |-> NewLocationForLatLong(lat, 0), Active |-> active]

\* the directories the provider may answer with; the empty one is also what
\* a body that is no XML decodes to, since xml.Unmarshal's error is dropped
Directories ==
    { <<Station("s1", 0, TRUE), Station("s2", 2, TRUE)>>,
      <<Station("s1", 0, FALSE), Station("s2", 2, TRUE)>>,
      << >> }

\* a nil *surfnerd.Buoy
NoBuoy == [StationID |-> "", Location |-> ZeroLocation, Active |-> FALSE]

Abs(x) == IF x < 0 THEN -x ELSE x

Distance(a, b) == Abs(a.Latitude - b.Latitude) + Abs(a.Longitude - b.Longitude)

\* stations.FindClosestActiveWaveBuoy(location): the nearest active station,
\* the first of the list among equally near ones; nil when none is active
FindClosestActiveWaveBuoy(stations, location) ==
    LET active == {i \in 1..Len(stations) : stations[i].Active}
        nearest == {i \in active : \A j \in active :
                       Distance(stations[i].Location, location)
                         <= Distance(stations[j].Location, location)}
    IN  IF active = {} THEN NoBuoy
        ELSE stations[CHOOSE i \in nearest : \A j \in nearest : i <= j]

\* stations.FindBuoyByID(stationID): the station of that id, or nil
FindBuoyByID(stations, stationID) ==
    LET hits == {i \in 1..Len(stations) : stations[i].StationID = stationID}
    IN  IF hits = {} THEN NoBuoy
        ELSE stations[CHOOSE i \in hits : \A j \in hits : i <= j]

\* &surfnerd.Buoy{StationID: stationID}: no location, no directory lookup
BuoyWithID(stationID) ==
    [StationID |-> stationID, Location |-> ZeroLocation, Active |-> FALSE]

(***************************************************************************)
(* The handlers registered in init.  All of them are the same straight     *)
(* line of code with different parts filled in, so each is given by its    *)
(* parts:                                                                  *)
(*   route    the variables of its route (mux.Vars has no others)          *)
(*   resolve  how the buoy is obtained: "closest" (fetchClosestBuoy),      *)
(*            "byid" (fetchBuoyWithID), "all" (the directory itself is     *)
(*            the answer) or "none" (&surfnerd.Buoy{StationID: ...})       *)
(*   reading  the fetch function: "latest", "standard", "detailed", "none" *)
(*   date     where requestedDate comes from: "epoch" is                   *)
(*            time.Unix(ParseInt(vars["epoch"])) at entry, "nowBefore" is  *)
(*            time.Now() at entry, "nowAfter" is time.Now() after the      *)
(*            reading was fetched                                          *)
(*   mul,add  count passed to the parser: int(Hours()*mul)+add, or the     *)
(*            literal add when mul = 0                                     *)
(*   charts   whether the two chart functions are called                   *)
(*   units    the ChangeUnits call on the conditions, "" when there is none*)
(*   out      "json" (headers, then w.Write) or "html" (buoyTemplate)      *)
(***************************************************************************)
Handler(name, route, resolve, reading, date, mul, add, charts, units, out) ==
    [name |-> name, route |-> route, resolve |-> resolve, reading |-> reading,
     date |-> date, mul |-> mul, add |-> add, charts |-> charts,
     units |-> units, out |-> out]

LatLon == {"lat", "lon"}
LatLonEpoch == {"lat", "lon", "epoch"}
StationOnly == {"station"}
StationEpoch == {"station", "epoch"}

buoyViewHandler ==
    Handler("buoyViewHandler", StationOnly, "none", "detailed", "nowBefore", 2, 1, TRUE, "english", "html")
findAllStationsHandler ==
    Handler("findAllStationsHandler", {}, "all", "none", "none", 0, 0, FALSE, "", "json")
findStationInfoHandler ==
    Handler("findStationInfoHandler", StationOnly, "byid", "none", "none", 0, 0, FALSE, "", "json")
closestWaveDateHandler ==
    Handler("closestWaveDateHandler", LatLonEpoch, "closest", "detailed", "epoch", 1, 0, FALSE, "", "json")
closestWaveChartsDateHandler ==
    Handler("closestWaveChartsDateHandler", LatLonEpoch, "closest", "detailed", "epoch", 1, 0, TRUE, "", "json")
closestWeatherDateHandler ==
    Handler("closestWeatherDateHandler", LatLonEpoch, "closest", "standard", "epoch", 1, 0, FALSE, "", "json")
closestLatestHandler ==
    Handler("closestLatestHandler", LatLon, "closest", "latest", "nowAfter", 0, 0, FALSE, "metric", "json")
closestLatestWaveHandler ==
    Handler("closestLatestWaveHandler", LatLon, "closest", "detailed", "epoch", 0, 1, FALSE, "", "json")
closestLatestWaveChartsHandler ==
    Handler("closestLatestWaveChartsHandler", LatLon, "closest", "detailed", "epoch", 0, 1, TRUE, "", "json")
closestLatestWeatherHandler ==
    Handler("closestLatestWeatherHandler", LatLon, "closest", "standard", "epoch", 0, 1, FALSE, "", "json")
latestIDHandler ==
    Handler("latestIDHandler", StationOnly, "none", "latest", "nowAfter", 0, 0, FALSE, "metric", "json")
\* a latestWaveIDHandler that draws the two charts
latestWaveIDHandlerDrawing ==
    Handler("latestWaveIDHandler", StationOnly, "none", "detailed", "nowAfter", 0, 1, TRUE, "", "json")
latestWaveIDHandler ==
    Handler("latestWaveIDHandler", StationOnly, "none", "detailed", "nowAfter", 0, 1, FALSE, "", "json")
latestWaveIDChartsHandler ==
    Handler("latestWaveIDChartsHandler", StationOnly, "none", "detailed", "nowAfter", 0, 1, TRUE, "", "json")
latestWeatherIDHandler ==
    Handler("latestWeatherIDHandler", StationOnly, "none", "standard", "nowAfter", 0, 1, FALSE, "", "json")
dateWaveIDHandler ==
    Handler("dateWaveIDHandler", StationEpoch, "none", "detailed", "epoch", 2, 0, FALSE, "", "json")
dateWaveIDChartsHandler ==
    Handler("dateWaveIDChartsHandler", StationEpoch, "none", "detailed", "epoch", 2, 0, TRUE, "", "json")
dateWeatherIDHandler ==
    Handler("dateWeatherIDHandler", StationEpoch, "none", "standard", "epoch", 2, 0, FALSE, "", "json")

\* every handler init registers that contacts an upstream provider
Handlers ==
    { buoyViewHandler, findAllStationsHandler, findStationInfoHandler,
      closestWaveDateHandler, closestWaveChartsDateHandler, closestWeatherDateHandler,
      closestLatestHandler, closestLatestWaveHandler, closestLatestWaveChartsHandler,
      closestLatestWeatherHandler, latestIDHandler, latestWaveIDHandler,
      latestWaveIDChartsHandler, latestWeatherIDHandler, dateWaveIDHandler,
      dateWaveIDChartsHandler, dateWeatherIDHandler }

(***************************************************************************)
(* What the upstream providers and the parsing library may answer.         *)
(***************************************************************************)
\* buoyData.WaveSpectra: three slices the parser fills one by one, given
\* here by their lengths
WaveSpectra(angles, energies, frequencies) ==
    [Angles |-> [i \in 1..angles |-> 45 * i],
     Energies |-> [i \in 1..energies |-> i],
     Frequencies |-> [i \in 1..frequencies |-> i]]

\* one parsed record (surfnerd.BuoyDataItem): its timestamp, its units and
\* its wave spectra
Item(date) == [Date |-> date, Units |-> "parsed", WaveSpectra |-> WaveSpectra(2, 2, 2)]

\* the zero value of surfnerd.BuoyDataItem
ZeroItem == [Date |-> 0, Units |-> "", WaveSpectra |-> WaveSpectra(0, 0, 0)]

\* the series of records a successful parse may leave in buoy.BuoyData
DataSets == { <<Item(3)>>, <<Item(1), Item(4)>> }

\* the series ParseRawWaveSpectraData may leave, which reads the angles from
\* one file and the energies and frequencies from another: records with
\* slices of one length, with no spectra at all, with more angles than
\* energies, with fewer, and with fewer energies than frequencies
SpectraDataSets ==
    { <<Item(3)>>,
      <<[Item(1) EXCEPT !.WaveSpectra = WaveSpectra(0, 0, 0)],
        [Item(4) EXCEPT !.WaveSpectra = WaveSpectra(3, 2, 2)]>>,
      <<[Item(3) EXCEPT !.WaveSpectra = WaveSpectra(1, 2, 2)]>>,
      <<[Item(3) EXCEPT !.WaveSpectra = WaveSpectra(2, 1, 2)]>> }

\* the bodies the chart service may answer with
ChartBodies == {"pngA", "pngB"}

\* the status line each of them comes with: the first is sent as a success,
\* the second as a server error; resp.StatusCode is read nowhere
ChartStatus(body) == IF body = "pngA" THEN 200 ELSE 500

\* what ioutil.ReadAll has read of a body when it fails half way
Partial(body) == IF body = "pngA" THEN "pn" ELSE "p"

\* base64.StdEncoding.EncodeToString
Base64(bytes) ==
    CASE bytes = "pngA" -> "cG5nQQ=="
      [] bytes = "pngB" -> "cG5nQg=="
      [] bytes = "pn" -> "cG4="
      [] bytes = "p" -> "cA=="
      [] OTHER -> ""

\* err.Error() of a failed client.Get or client.PostForm
FetchErrorText(kind) ==
    CASE kind = "directory" -> "urlfetch: directory"
      [] kind = "latest" -> "urlfetch: latest"
      [] kind = "standard" -> "urlfetch: standard"
      [] kind = "directional" -> "urlfetch: directional"
      [] kind = "energy" -> "urlfetch: energy"
      [] kind = "detailedWave" -> "urlfetch: detailedWave"
      [] OTHER -> "urlfetch: chart"

\* err.Error() of a failed parse
ParseErrorText == "surfnerd: could not parse"

\* err.Error() of a failed json.MarshalIndent, ToJSON or template.Execute
EncodeErrorText == "json: unsupported value"

(***************************************************************************)
(* http.ResponseWriter: the header map the handler edits, and what has     *)
(* gone to the client.  The first write sends the status line and the      *)
(* header map as it is then; later edits of the map reach nobody.          *)
(***************************************************************************)
NoHeader == [contentType |-> "", allowOrigin |-> ""]

NoBody == [kind |-> "", text |-> "", stations |-> << >>, buoy |-> NoBuoy,
           RequestedLocation |-> ZeroLocation, RequestedDate |-> 0,
           TimeDiffFound |-> 0, BuoyStationID |-> "", BuoyLocation |-> ZeroLocation,
           BuoyData |-> ZeroItem, DirectionalSpectraPlot |-> "",
           SpectraDistributionPlot |-> ""]

NewResponseWriter ==
    [header |-> NoHeader, status |-> 0, sent |-> NoHeader, body |-> NoBody,
     panicked |-> FALSE]

\* w.Header().Set("Content-Type", v)
SetContentType(w, v) == [w EXCEPT !.header.contentType = v]

\* w.Header().Set("Access-Control-Allow-Origin", v)
SetAllowOrigin(w, v) == [w EXCEPT !.header.allowOrigin = v]

\* w.WriteHeader(code): only the first call has an effect
WriteHeader(w, code) ==
    IF w.status # 0 THEN w ELSE [w EXCEPT !.status = code, !.sent = w.header]

\* w.Write(body): sends 200 and the headers first when nothing was sent yet
Write(w, body) == [WriteHeader(w, 200) EXCEPT !.body = body]

\* http.Error(w, text, code)
HttpError(w, text, code) ==
    Write(WriteHeader(SetContentType(w, "text/plain; charset=utf-8"), code),
          [NoBody EXCEPT !.kind = "error", !.text = text])

\* the handler dereferences a nil pointer: net/http recovers the panic and
\* drops the connection, the client gets no response
Panic(w) == [w EXCEPT !.panicked = TRUE]

(***************************************************************************)
(* The local state of one request: the handler's variables, the upstream   *)
(* calls it has made so far and its http.ResponseWriter.                   *)
(***************************************************************************)
NoHandler == Handler("", {}, "none", "none", "none", 0, 0, FALSE, "", "")

NoPath == [lat |-> "", lon |-> "", station |-> "", epoch |-> ""]

Idle ==
    [pc |-> "idle", handler |-> NoHandler, path |-> NoPath, started |-> 0,
     requestedLocation |-> ZeroLocation, requestedDate |-> 0, buoy |-> NoBuoy,
     count |-> 0, parsed |-> 0, stations |-> << >>, data |-> << >>,
     item |-> ZeroItem, timeDiff |-> 0, calls |-> << >>,
     directionalPlot |-> "", spectraPlot |-> "", w |-> NewResponseWriter]

\* mux.Vars(r)[name]: the path value, "" for a variable the route lacks
Vars(l, name) == IF name \in l.handler.route THEN l.path[name] ELSE ""

\* one upstream call: client.Get(url) or client.PostForm(url, data)
Call(kind, station) ==
    [kind |-> kind, station |-> station, state |-> "pending", status |-> 0, body |-> ""]

\* the handler issues an upstream call and blocks in pc until it returns
Issue(l, kind, pc) ==
    [l EXCEPT !.calls = Append(l.calls, Call(kind, l.buoy.StationID)), !.pc = pc]

\* the outstanding call returns
Returned(l, state) == [l EXCEPT !.calls[Len(l.calls)].state = state]

\* the outstanding chart call returns; the service answered with a status
\* line and a body unless the post itself failed
ChartReturned(l, outcome, body) ==
    [l EXCEPT !.calls[Len(l.calls)].state = outcome,
              !.calls[Len(l.calls)].status = IF outcome = "err" THEN 0 ELSE ChartStatus(body),
              !.calls[Len(l.calls)].body = IF outcome = "err" THEN "" ELSE body]

\* the handler returns
Done(l, w) == [l EXCEPT !.pc = "done", !.w = w]

\* int(x) of a float64 quotient n/d, d > 0: truncation toward zero
IntOf(n, d) == IF n >= 0 THEN n \div d ELSE -((-n) \div d)

\* count := int(time.Since(requestedDate).Hours()*mul) + add, or the literal
Count(h, since) ==
    IF h.mul = 0 THEN h.add ELSE IntOf(since * h.mul, TicksPerHour) + h.add

\* fetchDetailedWaveBuoyData without its first client.Get: only the energy
\* spectra are asked for
FetchBuoyDataOneCall(l, t) ==
    LET c == [l EXCEPT !.count = Count(l.handler, t - l.requestedDate)]
    IN  CASE l.handler.reading = "latest" -> Issue(c, "latest", "waitLatest")
          [] l.handler.reading = "standard" -> Issue(c, "standard", "waitStandard")
          [] OTHER -> Issue(c, "energy", "waitEnergy")

\* fetchDetailedWaveBuoyData sending both of its requests at once
FetchBuoyDataParallel(l, t) ==
    LET c == [l EXCEPT !.count = Count(l.handler, t - l.requestedDate)]
    IN  CASE l.handler.reading = "latest" -> Issue(c, "latest", "waitLatest")
          [] l.handler.reading = "standard" -> Issue(c, "standard", "waitStandard")
          [] OTHER -> Issue(Issue(c, "directional", "waitDirectional"),
                            "energy", "waitEnergy")

\* the first call of fetchLatestBuoyData, fetchStandardBuoyData or
\* fetchDetailedWaveBuoyData, after the handler computed count
FetchBuoyData(l, t) ==
    LET c == [l EXCEPT !.count = Count(l.handler, t - l.requestedDate)]
    IN  CASE l.handler.reading = "latest" -> Issue(c, "latest", "waitLatest")
          [] l.handler.reading = "standard" -> Issue(c, "standard", "waitStandard")
          [] OTHER -> Issue(c, "directional", "waitDirectional")

\* the handler with a directory cache: once the directory has been fetched,
\* a closest... handler takes the buoy it remembers and fetches nothing
EntryCached(h, path, t) ==
    LET l0 == [Idle EXCEPT !.handler = h, !.path = path, !.started = t]
        l1 == IF h.resolve = "closest"
              THEN [l0 EXCEPT !.requestedLocation =
                        NewLocationForLatLong(ParseFloat(Vars(l0, "lat")),
                                              ParseFloat(Vars(l0, "lon")))]
              ELSE l0
        l2 == CASE h.date = "epoch" ->
                     [l1 EXCEPT !.requestedDate = ParseInt(Vars(l1, "epoch"))]
                [] h.date = "nowBefore" -> [l1 EXCEPT !.requestedDate = t]
                [] OTHER -> l1
    IN  IF h.resolve = "none"
        THEN FetchBuoyData([l2 EXCEPT !.buoy = BuoyWithID(Vars(l2, "station"))], t)
        ELSE IF h.resolve = "closest" /\ fetched > 0
        THEN FetchBuoyData([l2 EXCEPT !.buoy = Station("s2", 2, TRUE)], t)
        ELSE Issue(l2, "directory", "waitDirectory")

\* the handler from its first line to its first upstream call
Entry(h, path, t) ==
    LET l0 == [Idle EXCEPT !.handler = h, !.path = path, !.started = t]
        l1 == IF h.resolve = "closest"
              THEN [l0 EXCEPT !.requestedLocation =
                        NewLocationForLatLong(ParseFloat(Vars(l0, "lat")),
                                              ParseFloat(Vars(l0, "lon")))]
              ELSE l0
        l2 == CASE h.date = "epoch" ->
                     [l1 EXCEPT !.requestedDate = ParseInt(Vars(l1, "epoch"))]
                [] h.date = "nowBefore" -> [l1 EXCEPT !.requestedDate = t]
                [] OTHER -> l1
    IN  IF h.resolve = "none"
        THEN FetchBuoyData([l2 EXCEPT !.buoy = BuoyWithID(Vars(l2, "station"))], t)
        ELSE Issue(l2, "directory", "waitDirectory")

\* buoy.FindConditionsForDateAndTime(date): the record nearest in time (the
\* earliest of two equally near ones) and its distance in time
FindConditionsForDateAndTime(data, date) ==
    LET best == CHOOSE i \in 1..Len(data) :
                    \A j \in 1..Len(data) :
                        \/ Abs(data[i].Date - date) < Abs(data[j].Date - date)
                        \/ Abs(data[i].Date - date) = Abs(data[j].Date - date) /\ i <= j
    IN  [item |-> data[best], timeDiff |-> Abs(data[best].Date - date)]

\* the ClosestBuoy value the handler builds; handlers given a station id
\* leave RequestedLocation and BuoyLocation out of the literal
Container(l) ==
    LET located == l.handler.resolve = "closest"
        data == IF l.handler.units = "" THEN l.item
                ELSE [l.item EXCEPT !.Units = l.handler.units]
    IN  [NoBody EXCEPT
            !.kind = "conditions",
            !.RequestedLocation = IF located THEN l.requestedLocation ELSE ZeroLocation,
            !.RequestedDate = l.requestedDate,
            !.TimeDiffFound = l.timeDiff,
            !.BuoyStationID = l.buoy.StationID,
            !.BuoyLocation = IF located THEN l.buoy.Location ELSE ZeroLocation,
            !.BuoyData = data,
            !.DirectionalSpectraPlot = l.directionalPlot,
            !.SpectraDistributionPlot = l.spectraPlot]

\* a JSON handler that writes the body first and sets the headers after
WriteJSONLate(w, body) ==
    SetAllowOrigin(SetContentType(Write(w, body), "application/json"), "*")

\* the end of a JSON handler: the headers, then the body
WriteJSON(w, body) ==
    Write(SetAllowOrigin(SetContentType(w, "application/json"), "*"), body)

\* the end of every handler that reports conditions: encode, then respond
Respond(l, encoded) ==
    IF l.handler.out = "html"
    THEN IF encoded
         THEN Done(l, Write(SetContentType(l.w, "text/html; charset=utf-8"),
                            [Container(l) EXCEPT !.kind = "page"]))
         ELSE Done(l, HttpError(l.w, EncodeErrorText, 500))
    ELSE IF encoded
         THEN Done(l, WriteJSON(l.w, Container(l)))
         ELSE Done(l, HttpError(l.w, EncodeErrorText, 500))

\* the loop of fetchDirectionalSpectraChart: it ranges over Energies and
\* reads Angles[index]; an index past the end of Angles is a run-time panic
DirectionalValues(spectra) ==
    \A index \in 0..(Len(spectra.Energies) - 1) : index < Len(spectra.Angles)

\* the loop of fetchSpectraDistributionChart: it ranges over Frequencies and
\* reads Energies[index]
SpectraValues(spectra) ==
    \A index \in 0..(Len(spectra.Frequencies) - 1) : index < Len(spectra.Energies)

\* fetchDirectionalSpectraChart up to its client.PostForm
PostDirectionalChart(l) ==
    IF DirectionalValues(l.item.WaveSpectra)
    THEN Issue(l, "directionalChart", "waitDirectionalChart")
    ELSE Done(l, Panic(l.w))

\* fetchSpectraDistributionChart up to its client.PostForm
PostSpectraChart(l) ==
    IF SpectraValues(l.item.WaveSpectra)
    THEN Issue(l, "spectraChart", "waitSpectraChart")
    ELSE Done(l, Panic(l.w))

\* the handler after its fetch function returned nil: requestedDate for the
\* handlers that take time.Now() here, the nearest record, then the charts
\* or the response
AfterFetch(l, data, t, encoded) ==
    LET l1 == [l EXCEPT !.data = data,
                        !.requestedDate =
                            IF l.handler.date = "nowAfter" THEN t ELSE l.requestedDate]
        found == FindConditionsForDateAndTime(data, l1.requestedDate)
        l2 == [l1 EXCEPT !.item = found.item, !.timeDiff = found.timeDiff]
    IN  IF l.handler.charts
        THEN PostDirectionalChart(l2)
        ELSE Respond(l2, encoded)

\* a handler that tries a failed call once more before it gives up
FetchFailedRetry(l, text) ==
    IF Len(l.calls) < 3
    THEN Issue(l, l.calls[Len(l.calls)].kind, l.pc)
    ELSE Done(l, HttpError(l.w, text, 500))

\* a fetchDetailedWaveBuoyData that goes on to the energy spectra after the
\* directional spectra could not be fetched
FetchFailedGoesOn(l, text) ==
    IF l.calls[Len(l.calls)].kind = "directional"
    THEN Issue(l, "energy", "waitEnergy")
    ELSE Done(l, HttpError(l.w, text, 500))

\* the handler after its fetch function returned an error
FetchFailed(l, text) == Done(l, HttpError(l.w, text, 500))

\* the parsing library is called (ParseRawLatestBuoyData, ParseRawStandardData
\* or ParseRawWaveSpectraData)
Parse(l) == [l EXCEPT !.parsed = l.parsed + 1]

\* chart functions that return what was read of a body with a nil error
FetchChartPartial(outcome, body) ==
    CASE outcome = "err" -> [plot |-> "", failed |-> TRUE]
      [] outcome = "readErr" -> [plot |-> Base64(Partial(body)), failed |-> FALSE]
      [] OTHER -> [plot |-> Base64(body), failed |-> FALSE]

\* what fetchDirectionalSpectraChart and fetchSpectraDistributionChart return:
\* ("", err) when the post fails, else the base64 of what was read together
\* with ReadAll's error
FetchChart(outcome, body) ==
    CASE outcome = "err" -> [plot |-> "", failed |-> TRUE]
      [] outcome = "readErr" -> [plot |-> Base64(Partial(body)), failed |-> TRUE]
      [] OTHER -> [plot |-> Base64(body), failed |-> FALSE]

\* the handler without its "if err != nil" after the chart function
PlotKept(result) == result.plot

\* if err != nil { plot = "" }
PlotOrEmpty(result) == IF result.failed THEN "" ELSE result.plot

ChartOutcomes == {"ok", "err", "readErr"}

(***************************************************************************)
(* The router init builds: mux.NewRouter().StrictSlash(true) with one      *)
(* route per HandleFunc call.  A request path is a sequence of segments    *)
(* (the text between two slashes) and a segment a sequence of words, so    *)
(* that <<"charts", "2">> is the segment charts2.  A route template is a   *)
(* sequence of segment patterns, a pattern a sequence of parts: a literal  *)
(* word or a {variable}, which mux compiles to [^/]+.                      *)
(***************************************************************************)
\* the longest tail of segments a request path carries after its prefix
MaxTail == 5

Lit(word) == [lit |-> word, var |-> ""]

Var(name) == [lit |-> "", var |-> name]

\* a template segment that is one literal word
L(word) == <<Lit(word)>>

\* a template segment that is one variable
V(name) == <<Var(name)>>

\* router.HandleFunc(template, handler)
HandleFunc(template, handler) == [template |-> template, handler |-> handler]

\* the routes with the generic /api/latest/{lat}/{lon} and
\* /api/latest/{station} registered ahead of the wave and weather routes
RoutesGenericFirst ==
    << HandleFunc(<< >>, "indexHandler"),
       HandleFunc(<<L("api")>>, "apiDocHandler"),
       HandleFunc(<<L("api"), L("stations")>>, "findAllStationsHandler"),
       HandleFunc(<<L("api"), L("stationinfo"), V("station")>>, "findStationInfoHandler"),
       HandleFunc(<<L("api"), L("latest"), V("lat"), V("lon")>>, "closestLatestHandler"),
       HandleFunc(<<L("api"), L("latest"), V("station")>>, "latestIDHandler"),
       HandleFunc(<<L("api"), L("latest"), L("wave"), <<Lit("charts"), Var("lat")>>, V("lon")>>,
                  "closestLatestWaveChartsHandler"),
       HandleFunc(<<L("api"), L("latest"), L("wave"), L("charts"), V("station")>>,
                  "latestWaveIDChartsHandler"),
       HandleFunc(<<L("api"), L("latest"), L("wave"), V("lat"), V("lon")>>,
                  "closestLatestWaveHandler"),
       HandleFunc(<<L("api"), L("latest"), L("weather"), V("lat"), V("lon")>>,
                  "closestLatestWeatherHandler"),
       HandleFunc(<<L("api"), L("latest"), L("wave"), V("station")>>, "latestWaveIDHandler"),
       HandleFunc(<<L("api"), L("latest"), L("weather"), V("station")>>,
                  "latestWeatherIDHandler"),
       HandleFunc(<<L("api"), L("date"), L("wave"), L("charts"), V("lat"), V("lon"), V("epoch")>>,
                  "closestWaveChartsDateHandler"),
       HandleFunc(<<L("api"), L("date"), L("wave"), L("charts"), V("station"), V("epoch")>>,
                  "dateWaveIDChartsHandler"),
       HandleFunc(<<L("api"), L("date"), L("wave"), V("lat"), V("lon"), V("epoch")>>,
                  "closestWaveDateHandler"),
       HandleFunc(<<L("api"), L("date"), L("weather"), V("lat"), V("lon"), V("epoch")>>,
                  "closestWeatherDateHandler"),
       HandleFunc(<<L("api"), L("date"), L("wave"), V("station"), V("epoch")>>,
                  "dateWaveIDHandler"),
       HandleFunc(<<L("api"), L("date"), L("weather"), V("station"), V("epoch")>>,
                  "dateWeatherIDHandler"),
       HandleFunc(<<L("buoy"), V("station")>>, "buoyViewHandler") >>

\* the routes of init, in the order of registration; the fifth template is
\* "/api/latest/wave/charts{lat}/{lon}": no slash between charts and {lat}
Routes ==
    << HandleFunc(<< >>, "indexHandler"),
       HandleFunc(<<L("api")>>, "apiDocHandler"),
       HandleFunc(<<L("api"), L("stations")>>, "findAllStationsHandler"),
       HandleFunc(<<L("api"), L("stationinfo"), V("station")>>, "findStationInfoHandler"),
       HandleFunc(<<L("api"), L("latest"), L("wave"), <<Lit("charts"), Var("lat")>>, V("lon")>>,
                  "closestLatestWaveChartsHandler"),
       HandleFunc(<<L("api"), L("latest"), L("wave"), L("charts"), V("station")>>,
                  "latestWaveIDChartsHandler"),
       HandleFunc(<<L("api"), L("latest"), L("wave"), V("lat"), V("lon")>>,
                  "closestLatestWaveHandler"),
       HandleFunc(<<L("api"), L("latest"), L("weather"), V("lat"), V("lon")>>,
                  "closestLatestWeatherHandler"),
       HandleFunc(<<L("api"), L("latest"), L("wave"), V("station")>>, "latestWaveIDHandler"),
       HandleFunc(<<L("api"), L("latest"), L("weather"), V("station")>>,
                  "latestWeatherIDHandler"),
       HandleFunc(<<L("api"), L("latest"), V("lat"), V("lon")>>, "closestLatestHandler"),
       HandleFunc(<<L("api"), L("latest"), V("station")>>, "latestIDHandler"),
       HandleFunc(<<L("api"), L("date"), L("wave"), L("charts"), V("lat"), V("lon"), V("epoch")>>,
                  "closestWaveChartsDateHandler"),
       HandleFunc(<<L("api"), L("date"), L("wave"), L("charts"), V("station"), V("epoch")>>,
                  "dateWaveIDChartsHandler"),
       HandleFunc(<<L("api"), L("date"), L("wave"), V("lat"), V("lon"), V("epoch")>>,
                  "closestWaveDateHandler"),
       HandleFunc(<<L("api"), L("date"), L("weather"), V("lat"), V("lon"), V("epoch")>>,
                  "closestWeatherDateHandler"),
       HandleFunc(<<L("api"), L("date"), L("wave"), V("station"), V("epoch")>>,
                  "dateWaveIDHandler"),
       HandleFunc(<<L("api"), L("date"), L("weather"), V("station"), V("epoch")>>,
                  "dateWeatherIDHandler"),
       HandleFunc(<<L("buoy"), V("station")>>, "buoyViewHandler") >>

\* whether a segment of the path matches a segment of a template: a literal
\* matches its own word only, {v} any segment (it is never empty), and a
\* literal followed by {v} a segment that goes on after the literal
MatchSegment(pattern, segment) ==
    IF pattern[1].var # "" THEN Len(segment) >= 1
    ELSE IF Len(pattern) = 1 THEN segment = <<pattern[1].lit>>
    ELSE Len(segment) >= 2 /\ segment[1] = pattern[1].lit

\* whether the whole path matches the template (the regexp is anchored at
\* both ends)
Matches(template, path) ==
    /\ Len(template) = Len(path)
    /\ \A i \in 1..Len(path) : MatchSegment(template[i], path[i])

\* mux.Vars(r)[name] after a match: the text the variable's [^/]+ matched,
\* nothing for a variable the template lacks
Bound(template, path, name) ==
    LET at == {i \in 1..Len(template) :
                  \E k \in 1..Len(template[i]) : template[i][k].var = name}
        i == CHOOSE j \in at : TRUE
    IN  IF at = {} THEN << >>
        ELSE IF Len(template[i]) = 1 THEN path[i]
        ELSE Tail(path[i])

NoVars == [lat |-> << >>, lon |-> << >>, station |-> << >>, epoch |-> << >>]

\* no route matches: mux answers with http.NotFoundHandler
NotFound == [route |-> 0, handler |-> "NotFoundHandler", vars |-> NoVars]

\* Router.Match: the first route, in the order of registration, whose
\* template matches; with StrictSlash a path that differs from the template
\* in its trailing slash matches too and is answered by a redirect
Match(routes, path, slash) ==
    LET hits == {i \in 1..Len(routes) : Matches(routes[i].template, path)}
        first == CHOOSE i \in hits : \A j \in hits : i <= j
    IN  IF hits = {} THEN NotFound
        ELSE [route |-> first,
              handler |-> IF slash /\ path # << >> THEN "RedirectHandler"
                          ELSE routes[first].handler,
              vars |-> [name \in DOMAIN NoVars |->
                           Bound(routes[first].template, path, name)]]

\* the segments request paths are made of
Segments == { <<"wave">>, <<"weather">>, <<"charts">>, <<"charts", "2">>, <<"2">> }

\* how the request paths begin
Prefixes ==
    { << >>, << <<"api">> >>, << <<"api">>, <<"latest">> >>, << <<"api">>, <<"date">> >>,
      << <<"api">>, <<"stations">> >>, << <<"api">>, <<"stationinfo">> >>, << <<"buoy">> >> }

\* the tails of request paths: up to MaxTail segments
Tails == UNION { [1..n -> Segments] : n \in 0..MaxTail }

\* the router before a request
NoDispatch == [pc |-> "idle", path |-> << >>, slash |-> FALSE, match |-> NotFound]

\* Router.ServeHTTP: a request arrives and is matched against the routes
ServeHTTP ==
    /\ dispatch.pc = "idle"
    /\ \E prefix \in Prefixes, tail \in Tails, slash \in BOOLEAN :
           dispatch' = [pc |-> "dispatched", path |-> prefix \o tail, slash |-> slash,
                        match |-> Match(Routes, prefix \o tail, slash)]
    /\ UNCHANGED <<req, now, served, resolving, fetched, blend>>

(***************************************************************************)
(* src/gradient.go: a Gradient is a list of keypoints, each a colour and a *)
(* float64 position.  Positions and the argument t are counted in halves,  *)
(* which spells every position of NewGradient exactly; the blend parameter *)
(* is kept as the quotient num/den the code divides out.                   *)
(***************************************************************************)
\* the largest position of a keypoint in the gradients tried besides
\* NewGradient
MaxPos == 3
\* the most keypoints such a gradient has
MaxKeypoints == 3
\* the largest argument GetInterpolatedColorFor is called with
MaxT == 28

\* the float64 whole + halves/2
Float(whole, halves) == 2 * whole + halves

Keypoint(col, pos) == [Col |-> col, Pos |-> pos]

\* NewGradient with the last two keypoints at the same position
NewGradientFlat ==
    << Keypoint("#5e4fa2", Float(3, 0)), Keypoint("#3288bd", Float(4, 0)),
       Keypoint("#66c2a5", Float(5, 0)), Keypoint("#abdda4", Float(6, 0)),
       Keypoint("#e6f598", Float(7, 0)), Keypoint("#ffffbf", Float(8, 0)),
       Keypoint("#fee090", Float(9, 0)), Keypoint("#fdae61", Float(10, 0)),
       Keypoint("#f46d43", Float(11, 0)), Keypoint("#d53e4f", Float(12, 0)),
       Keypoint("#9e0142", Float(12, 0)) >>

\* NewGradient(): eleven keypoints at 3.0, 4.0, ..., 12.0 and 13.5
NewGradient ==
    << Keypoint("#5e4fa2", Float(3, 0)), Keypoint("#3288bd", Float(4, 0)),
       Keypoint("#66c2a5", Float(5, 0)), Keypoint("#abdda4", Float(6, 0)),
       Keypoint("#e6f598", Float(7, 0)), Keypoint("#ffffbf", Float(8, 0)),
       Keypoint("#fee090", Float(9, 0)), Keypoint("#fdae61", Float(10, 0)),
       Keypoint("#f46d43", Float(11, 0)), Keypoint("#d53e4f", Float(12, 0)),
       Keypoint("#9e0142", Float(13, 1)) >>

\* c1.BlendHcl(c2, num/den).Clamped(): c1 at 0, c2 at 1, a colour of
\* neither keypoint in between, and no colour at all for 0/0
BlendHcl(c1, c2, num, den) ==
    CASE den = 0 -> "NaN"
      [] num = 0 -> c1
      [] num = den -> c2
      [] OTHER -> "blend"

\* what a call of GetInterpolatedColorFor did: whether the loop found a
\* segment, at which index (from 0, as in the code), the quotient it
\* divided out, and the colour returned
NoBlend ==
    [pc |-> "idle", gradient |-> << >>, t |-> 0, found |-> FALSE, index |-> 0,
     num |-> 0, den |-> 0, colour |-> ""]

\* self.GetInterpolatedColorFor(t): the first i with self[i].Pos <= t <=
\* self[i+1].Pos decides; when there is none the last colour is returned
GetInterpolatedColorFor(self, t) ==
    LET hits == {i \in 0..(Len(self) - 2) : self[i+1].Pos <= t /\ t <= self[i+2].Pos}
        i == CHOOSE j \in hits : \A k \in hits : j <= k
        c1 == self[i+1]
        c2 == self[i+2]
    IN  IF hits = {}
        THEN [NoBlend EXCEPT !.pc = "returned", !.gradient = self, !.t = t,
                             !.colour = self[Len(self)].Col]
        ELSE [pc |-> "returned", gradient |-> self, t |-> t, found |-> TRUE, index |-> i,
              num |-> t - c1.Pos, den |-> c2.Pos - c1.Pos,
              colour |-> BlendHcl(c1.Col, c2.Col, t - c1.Pos, c2.Pos - c1.Pos)]

\* the colours of the gradients tried besides NewGradient, by keypoint
Palette == <<"#000000", "#808080", "#ffffff">>

\* gradients with sorted keypoints: NewGradient, and every list of up to
\* MaxKeypoints keypoints whose positions never decrease
Gradients ==
    {NewGradient} \cup
    UNION { { [k \in 1..n |-> Keypoint(Palette[((k - 1) % Len(Palette)) + 1], pos[k])] :
                pos \in {p \in [1..n -> 0..MaxPos] : \A k \in 1..(n-1) : p[k] <= p[k+1]} } :
            n \in 1..MaxKeypoints }

\* a colour is asked of a gradient
Interpolate ==
    /\ blend.pc = "idle"
    /\ \E self \in Gradients, t \in 0..MaxT :
           blend' = GetInterpolatedColorFor(self, t)
    /\ UNCHANGED <<req, now, served, resolving, fetched, dispatch>>

(***************************************************************************)
(* The state machine.                                                      *)
(*   req        the local state of the request in each slot                *)
(*   now        the clock time.Now() reads                                 *)
(*   served     requests that have arrived since startup                   *)
(*   resolving  those of them whose handler needs the station directory    *)
(*   fetched    requests for the station directory sent since startup      *)
(***************************************************************************)
\* the requests for surfnerd.ActiveBuoysURL among the calls of a request
DirectoryCalls(l) == {i \in 1..Len(l.calls) : l.calls[i].kind = "directory"}

\* whether the handler starts by fetching the station directory
NeedsDirectory(h) == h.resolve # "none"

Init ==
    /\ req = [r \in Requests |-> Idle]
    /\ now = Epoch0
    /\ served = 0
    /\ resolving = 0
    /\ fetched = 0
    /\ dispatch = NoDispatch
    /\ blend = NoBlend

\* request r runs on to the local state l; fetched counts every request for
\* the station directory that goes out
Step(r, l) ==
    /\ req' = [req EXCEPT ![r] = l]
    /\ fetched' = fetched + Cardinality(DirectoryCalls(l))
                          - Cardinality(DirectoryCalls(req[r]))

\* the path of a request for handler h: values for the variables of its route
PathFor(h, c, s, e) ==
    [lat |-> IF "lat" \in h.route THEN c[1] ELSE "",
     lon |-> IF "lon" \in h.route THEN c[2] ELSE "",
     station |-> IF "station" \in h.route THEN s ELSE "",
     epoch |-> IF "epoch" \in h.route THEN e ELSE ""]

\* a request arrives, the router dispatches it and the handler runs up to
\* its first upstream call
Arrive(r, h, path) ==
    /\ req[r].pc = "idle"
    /\ Step(r, Entry(h, path, now))
    /\ served' = served + 1
    /\ resolving' = resolving + (IF NeedsDirectory(h) THEN 1 ELSE 0)
    /\ UNCHANGED <<now, dispatch, blend>>

\* requests served one after the other: any handler, any path values
Request(r) ==
    /\ served < MaxServed
    /\ \A q \in Requests \ {r} : req[q].pc = "idle"
    /\ \E h \in Handlers, c \in CoordInputs, s \in StationInputs, e \in EpochInputs :
           Arrive(r, h, PathFor(h, c, s, e))

\* the requests that are let in while another one is in flight: a selection
\* that goes through every upstream call a handler can make
ConcurrentLoad ==
    { [handler |-> findAllStationsHandler, path |-> NoPath],
      [handler |-> findStationInfoHandler, path |-> [NoPath EXCEPT !.station = "s1"]],
      [handler |-> closestLatestHandler, path |-> [NoPath EXCEPT !.lat = "2", !.lon = "0"]],
      [handler |-> closestWeatherDateHandler,
       path |-> [NoPath EXCEPT !.lat = "0", !.lon = "0", !.epoch = "3"]],
      [handler |-> latestWaveIDChartsHandler, path |-> [NoPath EXCEPT !.station = "s9"]] }

\* requests served at the same time, one per slot
ConcurrentRequest(r) ==
    /\ served < Cardinality(Requests)
    /\ \E p \in ConcurrentLoad : Arrive(r, p.handler, p.path)

\* findAllStationsHandler after client.Get: it drops the error, so a nil
\* stationsResponse panics at stationsResponse.Body; it also drops the error
\* of ToJSON, so a failed encoding sends an empty body
AllStations(l, fetchedOK, redirect, stations, encoded) ==
    IF ~fetchedOK /\ ~redirect
    THEN Done(l, Panic(l.w))
    ELSE Done(l, WriteJSON(l.w,
             IF encoded
             THEN [NoBody EXCEPT !.kind = "stations", !.stations = stations]
             ELSE NoBody))

\* a findStationInfoHandler that answers an unknown station with 404
StationInfoNotFound(l, encoded) ==
    LET b == FindBuoyByID(l.stations, Vars(l, "station")) IN
    IF b = NoBuoy
    THEN Done(l, HttpError(l.w, "Could not find the requested buoy", 404))
    ELSE IF encoded
    THEN Done([l EXCEPT !.buoy = b],
              WriteJSON(l.w, [NoBody EXCEPT !.kind = "buoy", !.buoy = b]))
    ELSE Done([l EXCEPT !.buoy = b], HttpError(l.w, EncodeErrorText, 500))

\* findStationInfoHandler after fetchBuoyWithID found the directory
StationInfo(l, encoded) ==
    LET b == FindBuoyByID(l.stations, Vars(l, "station")) IN
    IF b = NoBuoy
    THEN FetchFailed(l, "Could not find the requested buoy")
    ELSE IF encoded
    THEN Done([l EXCEPT !.buoy = b],
              WriteJSON(l.w, [NoBody EXCEPT !.kind = "buoy", !.buoy = b]))
    ELSE Done([l EXCEPT !.buoy = b], HttpError(l.w, EncodeErrorText, 500))

\* fetchClosestBuoy taking the first station of the directory
ClosestFirst(l, t) ==
    LET b == IF l.stations = << >> THEN NoBuoy ELSE l.stations[1] IN
    IF b = NoBuoy
    THEN FetchFailed(l, "Could not find the closest buoy")
    ELSE FetchBuoyData([l EXCEPT !.buoy = b], t)

\* fetchClosestBuoy decoding into a package-level stations variable: the
\* lookup sees the directory another request in flight has decoded last
ClosestShared(l, t) ==
    LET others == {q \in Requests : req[q].stations # << >> /\ req[q].stations # l.stations}
        shared == IF others = {} THEN l.stations
                  ELSE req[CHOOSE q \in others : TRUE].stations
        b == FindClosestActiveWaveBuoy(shared, l.requestedLocation)
    IN  IF b = NoBuoy
        THEN FetchFailed(l, "Could not find the closest buoy")
        ELSE FetchBuoyData([l EXCEPT !.buoy = b], t)

\* a closest... handler after fetchClosestBuoy found the directory
Closest(l, t) ==
    LET b == FindClosestActiveWaveBuoy(l.stations, l.requestedLocation) IN
    IF b = NoBuoy
    THEN FetchFailed(l, "Could not find the closest buoy")
    ELSE FetchBuoyData([l EXCEPT !.buoy = b], t)

\* client.Get(surfnerd.ActiveBuoysURL) returns, in fetchClosestBuoy, in
\* fetchBuoyWithID or in findAllStationsHandler
DirectoryReturns(r) ==
    LET l == req[r] IN
    /\ l.pc = "waitDirectory"
    /\ \/ \* the fetch failed; after a failed redirect the response is not
          \* nil but its body is closed, and nothing can be read from it
          \E redirect \in BOOLEAN, encoded \in BOOLEAN :
              Step(r, IF l.handler.resolve = "all"
                      THEN AllStations(Returned(l, "err"), FALSE, redirect, << >>, encoded)
                      ELSE FetchFailed(Returned(l, "err"), FetchErrorText("directory")))
       \/ \* the directory arrived
          \E stations \in Directories, encoded \in BOOLEAN :
              LET d == [Returned(l, "ok") EXCEPT !.stations = stations] IN
              Step(r, CASE l.handler.resolve = "all" ->
                             AllStations(d, TRUE, FALSE, stations, encoded)
                        [] l.handler.resolve = "byid" -> StationInfo(d, encoded)
                        [] OTHER -> Closest(d, now))
    /\ UNCHANGED <<now, served, resolving, dispatch, blend>>

\* client.Get(buoy.CreateLatestReadingURL()) returns in fetchLatestBuoyData
LatestReturns(r) ==
    LET l == req[r] IN
    /\ l.pc = "waitLatest"
    /\ \/ Step(r, FetchFailed(Returned(l, "err"), FetchErrorText("latest")))
       \/ Step(r, FetchFailed(Parse(Returned(l, "ok")), ParseErrorText))
       \/ \E data \in DataSets, encoded \in BOOLEAN :
              Step(r, AfterFetch(Parse(Returned(l, "ok")), data, now, encoded))
    /\ UNCHANGED <<now, served, resolving, dispatch, blend>>

\* client.Get(buoy.CreateStandardDataURL()) returns in fetchStandardBuoyData
StandardReturns(r) ==
    LET l == req[r] IN
    /\ l.pc = "waitStandard"
    /\ \/ Step(r, FetchFailed(Returned(l, "err"), FetchErrorText("standard")))
       \/ Step(r, FetchFailed(Parse(Returned(l, "ok")), ParseErrorText))
       \/ \E data \in DataSets, encoded \in BOOLEAN :
              Step(r, AfterFetch(Parse(Returned(l, "ok")), data, now, encoded))
    /\ UNCHANGED <<now, served, resolving, dispatch, blend>>

\* client.Get(buoy.CreateDirectionalSpectraDataURL()) returns in
\* fetchDetailedWaveBuoyData, which then asks for the energy spectra
DirectionalReturns(r) ==
    LET l == req[r] IN
    /\ l.pc = "waitDirectional"
    /\ \/ Step(r, FetchFailed(Returned(l, "err"), FetchErrorText("directional")))
       \/ Step(r, Issue(Returned(l, "ok"), "energy", "waitEnergy"))
    /\ UNCHANGED <<now, served, resolving, dispatch, blend>>

\* client.Get(buoy.CreateEnergySpectraDataURL()) returns in
\* fetchDetailedWaveBuoyData, which then parses both bodies
EnergyReturns(r) ==
    LET l == req[r] IN
    /\ l.pc = "waitEnergy"
    /\ \/ Step(r, FetchFailed(Returned(l, "err"), FetchErrorText("energy")))
       \/ Step(r, FetchFailed(Parse(Returned(l, "ok")), ParseErrorText))
       \/ \E data \in SpectraDataSets, encoded \in BOOLEAN :
              Step(r, AfterFetch(Parse(Returned(l, "ok")), data, now, encoded))
    /\ UNCHANGED <<now, served, resolving, dispatch, blend>>

\* client.PostForm returns in fetchDirectionalSpectraChart; the handler
\* goes on to fetchSpectraDistributionChart whatever came back
DirectionalChartReturns(r) ==
    LET l == req[r] IN
    /\ l.pc = "waitDirectionalChart"
    /\ \E outcome \in ChartOutcomes, body \in ChartBodies :
           Step(r, PostSpectraChart(
                       [ChartReturned(l, outcome, body) EXCEPT
                           !.directionalPlot = PlotOrEmpty(FetchChart(outcome, body))]))
    /\ UNCHANGED <<now, served, resolving, dispatch, blend>>

\* client.PostForm returns in fetchSpectraDistributionChart; the handler
\* builds its response
SpectraChartReturns(r) ==
    LET l == req[r] IN
    /\ l.pc = "waitSpectraChart"
    /\ \E outcome \in ChartOutcomes, body \in ChartBodies, encoded \in BOOLEAN :
           Step(r, Respond([ChartReturned(l, outcome, body) EXCEPT
                               !.spectraPlot = PlotOrEmpty(FetchChart(outcome, body))],
                           encoded))
    /\ UNCHANGED <<now, served, resolving, dispatch, blend>>

\* the handler has returned and its goroutine ends: nothing of it remains
Finish(r) ==
    /\ req[r].pc = "done"
    /\ req' = [req EXCEPT ![r] = Idle]
    /\ UNCHANGED <<now, served, resolving, fetched, dispatch, blend>>

\* time passes
Tick ==
    /\ now < Epoch0 + MaxTicks
    /\ now' = now + 1
    /\ UNCHANGED <<req, served, resolving, fetched, dispatch, blend>>

\* what a request in flight does next
Handle(r) ==
    \/ DirectoryReturns(r)
    \/ LatestReturns(r)
    \/ StandardReturns(r)
    \/ DirectionalReturns(r)
    \/ EnergyReturns(r)
    \/ DirectionalChartReturns(r)
    \/ SpectraChartReturns(r)
    \/ Finish(r)

Next ==
    \/ \E r \in Requests : Request(r) \/ Handle(r)
    \/ Tick

\* requests one after the other, over every handler and path value
Spec == Init /\ [][Next]_vars

ConcurrentNext ==
    \/ \E r \in Requests : ConcurrentRequest(r) \/ Handle(r)
    \/ Tick

\* requests in flight at the same time, steps interleaved in every order
ConcurrentSpec == Init /\ [][ConcurrentNext]_vars

\* the router alone: one request path, matched against the routes
RouterSpec == Init /\ [][ServeHTTP]_vars

\* the gradient alone: one call of GetInterpolatedColorFor
GradientSpec == Init /\ [][Interpolate]_vars

(***************************************************************************)
(* The single-route version of the service: init registers                 *)
(* /api/{lat}/{lon}/{epoch} for closestBuoyDateHandler, which does its     *)
(* work inline: the directory, the nearest buoy, one reading chosen by the *)
(* age of the requested date, the nearest record, the response.            *)
(***************************************************************************)
closestBuoyDateHandler ==
    Handler("closestBuoyDateHandler", LatLonEpoch, "closest", "byAge", "epoch", 0, 0, FALSE, "", "json")

\* a closestBuoyDateHandler that still takes the latest reading for a date
\* exactly one hour old
GetTheBuoyDataInclusive(l, t) ==
    IF t - l.requestedDate <= TicksPerHour
    THEN Issue(l, "latest", "waitLatestReading")
    ELSE Issue([l EXCEPT !.count = 100000000], "detailedWave", "waitDetailedWave")

\* "Get the buoy data": time.Since(requestedDate).Hours() < 1.0 picks the
\* latest reading, anything else the detailed wave history
GetTheBuoyData(l, t) ==
    IF t - l.requestedDate < TicksPerHour
    THEN Issue(l, "latest", "waitLatestReading")
    ELSE Issue([l EXCEPT !.count = 100000000], "detailedWave", "waitDetailedWave")

\* the end of closestBuoyDateHandler: the nearest record, the container,
\* json.MarshalIndent, then Content-Type alone and the body
closestBuoyDateResponse(l, data, encoded) ==
    LET found == FindConditionsForDateAndTime(data, l.requestedDate)
        l1 == [l EXCEPT !.data = data, !.item = found.item, !.timeDiff = found.timeDiff]
    IN  IF encoded
        THEN Done(l1, Write(SetContentType(l1.w, "application/json"), Container(l1)))
        ELSE Done(l1, HttpError(l1.w, EncodeErrorText, 500))

\* a request for /api/{lat}/{lon}/{epoch} arrives; closestBuoyDateHandler
\* parses the path values and asks for the directory
closestBuoyDateRequest(r) ==
    /\ served < MaxServed
    /\ \A q \in Requests \ {r} : req[q].pc = "idle"
    /\ \E c \in CoordInputs, e \in EpochInputs :
           Arrive(r, closestBuoyDateHandler, PathFor(closestBuoyDateHandler, c, "", e))

\* client.Get(surfnerd.ActiveBuoysURL) returns in closestBuoyDateHandler
closestBuoyDirectoryReturns(r) ==
    LET l == req[r] IN
    /\ l.pc = "waitDirectory"
    /\ l.handler.reading = "byAge"
    /\ \/ Step(r, Done(Returned(l, "err"),
                       HttpError(l.w, FetchErrorText("directory"), 500)))
       \/ \E stations \in Directories :
              LET d == [Returned(l, "ok") EXCEPT !.stations = stations]
                  closestBuoy == FindClosestActiveWaveBuoy(stations, d.requestedLocation)
              IN  Step(r, IF closestBuoy = NoBuoy
                          THEN Done(d, HttpError(d.w, "Could not find the closest buoy", 500))
                          ELSE GetTheBuoyData([d EXCEPT !.buoy = closestBuoy], now))
    /\ UNCHANGED <<now, served, resolving, dispatch, blend>>

\* client.Get(closestBuoy.CreateLatestReadingURL()) returns
closestBuoyLatestReturns(r) ==
    LET l == req[r] IN
    /\ l.pc = "waitLatestReading"
    /\ \/ Step(r, Done(Returned(l, "err"), HttpError(l.w, FetchErrorText("latest"), 500)))
       \/ Step(r, LET p == Parse(Returned(l, "ok"))
                  IN  Done(p, HttpError(p.w, ParseErrorText, 500)))
       \/ \E data \in DataSets, encoded \in BOOLEAN :
              Step(r, closestBuoyDateResponse(Parse(Returned(l, "ok")), data, encoded))
    /\ UNCHANGED <<now, served, resolving, dispatch, blend>>

\* client.Get(closestBuoy.CreateDetailedWaveDataURL()) returns
closestBuoyDetailedWaveReturns(r) ==
    LET l == req[r] IN
    /\ l.pc = "waitDetailedWave"
    /\ \/ Step(r, Done(Returned(l, "err"),
                       HttpError(l.w, FetchErrorText("detailedWave"), 500)))
       \/ Step(r, LET p == Parse(Returned(l, "ok"))
                  IN  Done(p, HttpError(p.w, ParseErrorText, 500)))
       \/ \E data \in DataSets, encoded \in BOOLEAN :
              Step(r, closestBuoyDateResponse(Parse(Returned(l, "ok")), data, encoded))
    /\ UNCHANGED <<now, served, resolving, dispatch, blend>>

SingleRouteNext ==
    \/ \E r \in Requests :
           \/ closestBuoyDateRequest(r)
           \/ closestBuoyDirectoryReturns(r)
           \/ closestBuoyLatestReturns(r)
           \/ closestBuoyDetailedWaveReturns(r)
           \/ Finish(r)
    \/ Tick

\* the single-route version: requests for closestBuoyDateHandler, one after
\* the other
SingleRouteSpec == Init /\ [][SingleRouteNext]_vars

(***************************************************************************)
(* Properties.                                                             *)
(***************************************************************************)
Finished(l) == l.pc = "done"

\* the calls of one kind among the upstream calls of a request
CallsOf(l, kind) == {i \in 1..Len(l.calls) : l.calls[i].kind = kind}

\* calls to the station directory and the station reading provider
DataKinds == {"directory", "latest", "standard", "directional", "energy"}

\* calls to the chart rendering service
ChartKinds == {"directionalChart", "spectraChart"}

\* the data calls of a request that returned an error
FailedFetches(l) ==
    {i \in 1..Len(l.calls) : l.calls[i].kind \in DataKinds /\ l.calls[i].state = "err"}

\* the directory arrived and the station asked for is not in it
LookupFailed(l) ==
    /\ \E i \in DirectoryCalls(l) : l.calls[i].state = "ok"
    /\ \/ /\ l.handler.resolve = "closest"
          /\ FindClosestActiveWaveBuoy(l.stations,
                 NewLocationForLatLong(ParseFloat(l.path.lat), ParseFloat(l.path.lon))) = NoBuoy
       \/ /\ l.handler.resolve = "byid"
          /\ FindBuoyByID(l.stations, l.path.station) = NoBuoy

\* the parsing library was called and returned an error
ParseFailed(l) == l.parsed > 0 /\ l.data = << >>

\* the response is the 500 that http.Error writes with this text
IsError500(w, text) ==
    /\ w.status = 500
    /\ w.body = [NoBody EXCEPT !.kind = "error", !.text = text]
    /\ ~w.panicked

\* C1: every upstream failure (a data fetch returns an error, the station is
\* not in the directory, the parsing library returns an error) ends the
\* request with a 500 that carries the error text and no success body, in
\* every handler, findAllStationsHandler included.
C1_UpstreamFailureIs500 ==
    \A r \in Requests :
        LET l == req[r] IN
        Finished(l) =>
            /\ \A i \in FailedFetches(l) : IsError500(l.w, FetchErrorText(l.calls[i].kind))
            /\ LookupFailed(l) =>
                   IsError500(l.w, IF l.handler.resolve = "closest"
                                   THEN "Could not find the closest buoy"
                                   ELSE "Could not find the requested buoy")
            /\ ParseFailed(l) => IsError500(l.w, ParseErrorText)

\* the same for every handler but findAllStationsHandler
C1_ExceptAllStations ==
    \A r \in Requests :
        LET l == req[r] IN
        Finished(l) /\ l.handler.resolve # "all" =>
            /\ \A i \in FailedFetches(l) : IsError500(l.w, FetchErrorText(l.calls[i].kind))
            /\ LookupFailed(l) =>
                   IsError500(l.w, IF l.handler.resolve = "closest"
                                   THEN "Could not find the closest buoy"
                                   ELSE "Could not find the requested buoy")
            /\ ParseFailed(l) => IsError500(l.w, ParseErrorText)

\* C2 as claimed: every request served successfully made two or three
\* upstream calls.
C2_TwoOrThreeCalls ==
    \A r \in Requests :
        Finished(req[r]) /\ req[r].w.status = 200 => Len(req[r].calls) \in {2, 3}

\* the upstream calls of a successful request, handler by handler
UpstreamCalls(name) ==
    CASE name \in {"findAllStationsHandler", "findStationInfoHandler", "latestIDHandler",
                   "latestWeatherIDHandler", "dateWeatherIDHandler"} -> 1
      [] name \in {"closestLatestHandler", "closestLatestWeatherHandler",
                   "closestWeatherDateHandler", "latestWaveIDHandler",
                   "dateWaveIDHandler"} -> 2
      [] name \in {"closestLatestWaveHandler", "closestWaveDateHandler"} -> 3
      [] name \in {"latestWaveIDChartsHandler", "dateWaveIDChartsHandler",
                   "buoyViewHandler"} -> 4
      [] name \in {"closestLatestWaveChartsHandler", "closestWaveChartsDateHandler"} -> 5

\* C2 amended: every request served successfully made between one and five
\* upstream calls, the number its handler fixes: one for the directory where
\* the handler resolves a station, one or two for the reading, two for the
\* charts where the handler draws them.
C2_CallsPerHandler ==
    \A r \in Requests :
        Finished(req[r]) /\ req[r].w.status = 200 =>
            Len(req[r].calls) = UpstreamCalls(req[r].handler.name)

\* a successful request that made five upstream calls
C2_Witness ==
    \E r \in Requests :
        Finished(req[r]) /\ req[r].w.status = 200 /\ Len(req[r].calls) = 5

\* C3: the upstream calls of a request are strictly sequential: at most one
\* is outstanding, and it is the last one issued; the directory call has
\* returned before a reading call goes out, the directional spectra call
\* before the energy spectra call, and a chart call goes out only after the
\* reading was parsed and the nearest record selected.
C3_CallsSequential ==
    \A r \in Requests :
        LET l == req[r]
            c == l.calls
        IN  /\ \A i \in 1..Len(c) : c[i].state = "pending" => i = Len(c)
            /\ \A i \in 1..Len(c) :
                   c[i].kind \in DataKinds \ {"directory"} =>
                       \A j \in DirectoryCalls(l) : j < i /\ c[j].state = "ok"
            /\ \A i \in CallsOf(l, "energy") :
                   \E j \in CallsOf(l, "directional") : j < i /\ c[j].state = "ok"
            /\ \A i \in 1..Len(c) :
                   c[i].kind \in ChartKinds =>
                       /\ l.parsed = 1
                       /\ l.data # << >>
                       /\ l.item \in {l.data[k] : k \in 1..Len(l.data)}
                       /\ \A j \in 1..(i-1) : c[j].state # "pending"
                       /\ \A j \in 1..Len(c) : c[j].kind \in DataKinds => j < i /\ c[j].state = "ok"

\* a chart call is outstanding in a request that resolved the station and
\* fetched both spectra before
C3_Witness ==
    \E r \in Requests :
        LET c == req[r].calls IN
        /\ Len(c) = 4
        /\ c[4].kind = "directionalChart" /\ c[4].state = "pending"
        /\ c[1].kind = "directory" /\ c[2].kind = "directional" /\ c[3].kind = "energy"

\* the handlers the claim names as resolving a station: the coordinate
\* endpoints, /api/stationinfo/{station} and /api/stations
Resolves(h) ==
    \/ "lat" \in h.route
    \/ h.name \in {"findStationInfoHandler", "findAllStationsHandler"}

\* C4: a request that needs station resolution fetches the station directory
\* exactly once, a request given a station identifier for conditions never
\* fetches it, and nothing is kept between requests: as many directory
\* fetches have gone out as resolving requests have arrived.
C4_DirectoryOncePerRequest ==
    /\ \A r \in Requests :
           req[r].pc # "idle" =>
               Cardinality(DirectoryCalls(req[r])) = IF Resolves(req[r].handler) THEN 1 ELSE 0
    /\ fetched = resolving

\* two requests that resolve a station were served one after the other and
\* the second got its directory
C4_Witness ==
    /\ resolving = 2
    /\ fetched = 2
    /\ \E r \in Requests :
           /\ Finished(req[r])
           /\ req[r].handler.resolve = "closest"
           /\ \E i \in DirectoryCalls(req[r]) : req[r].calls[i].state = "ok"

\* C5: no retry: within one request no upstream URL (the directory, the
\* latest reading, the standard data, either spectra, either chart) is
\* requested twice, whether the call succeeds or fails.
C5_NoRetry ==
    \A r \in Requests :
        LET c == req[r].calls IN
        \A i, j \in 1..Len(c) :
            i # j => <<c[i].kind, c[i].station>> # <<c[j].kind, c[j].station>>

\* a request ended after its second call failed, and made no third
C5_Witness ==
    \E r \in Requests :
        /\ Finished(req[r])
        /\ Len(req[r].calls) = 2
        /\ req[r].calls[2].state = "err"
        /\ req[r].w.status = 500

ReportsConditions(l) ==
    Finished(l) /\ l.w.status = 200 /\ l.w.body.kind \in {"conditions", "page"}

\* C7: the timestamp is optional: an endpoint whose route has no {epoch}
\* looks up and echoes the time of the request, an endpoint with {epoch}
\* looks up and echoes time.Unix(epoch).
C7_DateIsNowOrEpoch ==
    \A r \in Requests :
        LET l == req[r] IN
        ReportsConditions(l) =>
            /\ l.w.body.TimeDiffFound = Abs(l.w.body.BuoyData.Date - l.w.body.RequestedDate)
            /\ IF "epoch" \in l.handler.route
               THEN l.w.body.RequestedDate = ParseInt(l.path.epoch)
               ELSE l.started <= l.w.body.RequestedDate /\ l.w.body.RequestedDate <= now

\* the same for every handler but the three latest-by-coordinate handlers
\* that read vars["epoch"] from a route without {epoch}
C7_ExceptClosestLatest ==
    \A r \in Requests :
        LET l == req[r] IN
        /\ ReportsConditions(l)
        /\ l.handler.name \notin {"closestLatestWaveHandler", "closestLatestWaveChartsHandler",
                                  "closestLatestWeatherHandler"}
        => /\ l.w.body.TimeDiffFound = Abs(l.w.body.BuoyData.Date - l.w.body.RequestedDate)
           /\ IF "epoch" \in l.handler.route
              THEN l.w.body.RequestedDate = ParseInt(l.path.epoch)
              ELSE l.started <= l.w.body.RequestedDate /\ l.w.body.RequestedDate <= now

\* C8: station selection is nearest-or-named: a coordinate request reports
\* the station the nearest-active-wave-buoy lookup returns for the requested
\* (lat, lon) on the directory this request fetched, and reads that station;
\* a station request reports the {station} path value and reads only it.
C8_NearestOrNamed ==
    \A r \in Requests :
        LET l == req[r]
            c == l.calls
            nearest == FindClosestActiveWaveBuoy(l.stations,
                           NewLocationForLatLong(ParseFloat(l.path.lat), ParseFloat(l.path.lon)))
        IN  ReportsConditions(l) =>
                IF "lat" \in l.handler.route
                THEN /\ \E i \in DirectoryCalls(l) : c[i].state = "ok"
                     /\ nearest # NoBuoy
                     /\ l.w.body.BuoyStationID = nearest.StationID
                     /\ \A i \in 1..Len(c) :
                            c[i].kind # "directory" => c[i].station = nearest.StationID
                ELSE /\ l.w.body.BuoyStationID = l.path.station
                     /\ \A i \in 1..Len(c) : c[i].station = l.path.station

\* a coordinate request near the second station of the directory reports it,
\* though the first one is active too
C8_Witness ==
    \E r \in Requests :
        LET l == req[r] IN
        /\ ReportsConditions(l)
        /\ l.path.lat = "2"
        /\ Len(l.stations) = 2
        /\ l.stations[1].Active
        /\ l.w.body.BuoyStationID = "s2"

\* C9: a successful JSON response goes out with Content-Type:
\* application/json and Access-Control-Allow-Origin: *, both set before the
\* body is written, and a JSON handler that ends in an error has set neither.
C9_JSONHeaders ==
    \A r \in Requests :
        LET l == req[r] IN
        Finished(l) /\ l.handler.out = "json" =>
            IF l.w.status = 200
            THEN l.w.sent = [contentType |-> "application/json", allowOrigin |-> "*"]
            ELSE /\ l.w.header.contentType # "application/json"
                 /\ l.w.header.allowOrigin = ""
                 /\ l.w.sent.allowOrigin = ""

\* conditions went out as JSON
C9_Witness ==
    \E r \in Requests :
        /\ ReportsConditions(req[r])
        /\ req[r].handler.out = "json"
        /\ req[r].w.sent.contentType = "application/json"

\* the state of the call of one kind in a request, "none" when it made none
StateOf(l, kind) ==
    IF CallsOf(l, kind) = {} THEN "none"
    ELSE l.calls[CHOOSE i \in CallsOf(l, kind) : TRUE].state

\* the body the chart service sent for the call of one kind
BodyOf(l, kind) ==
    IF CallsOf(l, kind) = {} THEN ""
    ELSE l.calls[CHOOSE i \in CallsOf(l, kind) : TRUE].body

\* the reading calls of a handler, in the order the fetch function makes them
ReadingKinds(h) ==
    CASE h.reading = "latest" -> <<"latest">>
      [] h.reading = "standard" -> <<"standard">>
      [] h.reading = "detailed" -> <<"directional", "energy">>
      [] OTHER -> << >>

\* the response of a request served alone: a function of its handler, its
\* path values, the time it arrived, the replies its upstream calls got (the
\* state of each call, the directory, the parsed records, the chart bodies,
\* the time of the reading's reply) and of whether encoding the response
\* works (after a failed directory fetch in findAllStationsHandler, also of
\* whether a response was left by a failed redirect)
AloneResponse(l, encoded, redirect) ==
    LET h == l.handler
        w == NewResponseWriter
        json(body) ==
            [w EXCEPT !.status = 200, !.body = body,
                      !.header = [contentType |-> "application/json", allowOrigin |-> "*"],
                      !.sent = [contentType |-> "application/json", allowOrigin |-> "*"]]
        location == NewLocationForLatLong(ParseFloat(l.path.lat), ParseFloat(l.path.lon))
        buoy == CASE h.resolve = "closest" -> FindClosestActiveWaveBuoy(l.stations, location)
                  [] h.resolve = "byid" -> FindBuoyByID(l.stations, l.path.station)
                  [] OTHER -> BuoyWithID(l.path.station)
        kinds == ReadingKinds(h)
        failed == {k \in 1..Len(kinds) : StateOf(l, kinds[k]) # "ok"}
        date == CASE h.date = "epoch" -> ParseInt(IF "epoch" \in h.route THEN l.path.epoch ELSE "")
                  [] h.date = "nowBefore" -> l.started
                  [] OTHER -> l.requestedDate
        found == FindConditionsForDateAndTime(l.data, date)
        plot(kind) == IF h.charts /\ StateOf(l, kind) = "ok" THEN Base64(BodyOf(l, kind)) ELSE ""
        conditions ==
            [NoBody EXCEPT
                !.kind = IF h.out = "html" THEN "page" ELSE "conditions",
                !.RequestedLocation = IF h.resolve = "closest" THEN location ELSE ZeroLocation,
                !.RequestedDate = date,
                !.TimeDiffFound = found.timeDiff,
                !.BuoyStationID = buoy.StationID,
                !.BuoyLocation = buoy.Location,
                !.BuoyData = IF h.units = "" THEN found.item
                             ELSE [found.item EXCEPT !.Units = h.units],
                !.DirectionalSpectraPlot = plot("directionalChart"),
                !.SpectraDistributionPlot = plot("spectraChart")]
    IN  IF NeedsDirectory(h) /\ StateOf(l, "directory") # "ok"
        THEN IF h.resolve # "all" THEN HttpError(w, FetchErrorText("directory"), 500)
             ELSE IF ~redirect THEN Panic(w)
             ELSE json(IF encoded THEN [NoBody EXCEPT !.kind = "stations"] ELSE NoBody)
        ELSE IF h.resolve = "all"
        THEN json(IF encoded
                  THEN [NoBody EXCEPT !.kind = "stations", !.stations = l.stations]
                  ELSE NoBody)
        ELSE IF h.resolve = "closest" /\ buoy = NoBuoy
        THEN HttpError(w, "Could not find the closest buoy", 500)
        ELSE IF h.resolve = "byid" /\ buoy = NoBuoy
        THEN HttpError(w, "Could not find the requested buoy", 500)
        ELSE IF h.resolve = "byid"
        THEN IF encoded THEN json([NoBody EXCEPT !.kind = "buoy", !.buoy = buoy])
             ELSE HttpError(w, EncodeErrorText, 500)
        ELSE IF failed # {}
        THEN HttpError(w, FetchErrorText(kinds[CHOOSE k \in failed : \A j \in failed : k <= j]), 500)
        ELSE IF l.data = << >> THEN HttpError(w, ParseErrorText, 500)
        ELSE IF h.charts /\ ~DirectionalValues(found.item.WaveSpectra) THEN Panic(w)
        ELSE IF h.charts /\ ~SpectraValues(found.item.WaveSpectra) THEN Panic(w)
        ELSE IF ~encoded THEN HttpError(w, EncodeErrorText, 500)
        ELSE IF h.out = "html"
        THEN [w EXCEPT !.status = 200, !.body = conditions,
                       !.header = [contentType |-> "text/html; charset=utf-8", allowOrigin |-> ""],
                       !.sent = [contentType |-> "text/html; charset=utf-8", allowOrigin |-> ""]]
        ELSE json(conditions)

\* C10: requests are isolated: however the steps of two requests in flight
\* interleave, the response of each is the one it would get if it were
\* served alone and its upstream calls got the same replies.
C10_Isolated ==
    \A r \in Requests :
        LET l == req[r] IN
        Finished(l) =>
            /\ l.started <= l.requestedDate \/ l.handler.date # "nowAfter" \/ l.w.status # 200
            /\ \E encoded \in BOOLEAN, redirect \in BOOLEAN :
                   l.w = AloneResponse(l, encoded, redirect)

\* two requests are done at the same time; they asked for the nearest buoy
\* of different places, got different directories and report different
\* stations
C10_Witness ==
    \E r, q \in Requests :
        /\ r # q
        /\ ReportsConditions(req[r]) /\ ReportsConditions(req[q])
        /\ req[r].stations # req[q].stations
        /\ req[r].stations # << >> /\ req[q].stations # << >>
        /\ req[r].w.body.BuoyStationID = "s1"
        /\ req[q].w.body.BuoyStationID = "s2"

\* the routes whose template matches the path that was dispatched
Matching == {i \in 1..Len(Routes) : Matches(Routes[i].template, dispatch.path)}

\* the literal wave, weather and charts parts of a route's template
Specifics(route) ==
    {<<i, k>> \in (1..Len(route.template)) \X (1..2) :
        /\ k <= Len(route.template[i])
        /\ route.template[i][k].lit \in {"wave", "weather", "charts"}}

\* the routes the claim calls generic: /api/latest/{lat}/{lon},
\* /api/latest/{station}, /api/latest/wave/{lat}/{lon} and
\* /api/date/wave/{lat}/{lon}/{epoch}
GenericHandlers ==
    {"closestLatestHandler", "latestIDHandler", "closestLatestWaveHandler",
     "closestWaveDateHandler"}

\* C11: dispatch is first-match in registration order and the specific
\* routes come first: a path goes to the first route registered that matches
\* it, and when it matches a route with a literal wave, weather or charts
\* part it goes to that route, or to one with more such literals, and never
\* to a generic route that matches it as well.
C11_SpecificBeforeGeneric ==
    dispatch.pc = "dispatched" =>
        /\ Matching = {} <=> dispatch.match.route = 0
        /\ \A i \in Matching :
               /\ dispatch.match.route \in Matching
               /\ dispatch.match.route <= i
               /\ Specifics(Routes[i]) # {} =>
                      \/ dispatch.match.route = i
                      \/ /\ Cardinality(Specifics(Routes[dispatch.match.route]))
                              > Cardinality(Specifics(Routes[i]))
                         /\ Routes[dispatch.match.route].handler \notin GenericHandlers

\* /api/latest/wave/charts/2 went to latestWaveIDChartsHandler though the
\* template /api/latest/wave/{lat}/{lon} matches it as well
C11_Witness ==
    /\ dispatch.pc = "dispatched"
    /\ dispatch.path = << <<"api">>, <<"latest">>, <<"wave">>, <<"charts">>, <<"2">> >>
    /\ dispatch.match.handler = "latestWaveIDChartsHandler"
    /\ dispatch.match.vars.station = <<"2">>
    /\ \E i \in Matching : Routes[i].handler = "closestLatestWaveHandler"

\* C12: a request for /api/latest/wave/charts/{lat}/{lon} is dispatched to
\* closestLatestWaveChartsHandler with lat and lon bound to the two segments
\* after charts.
C12_LatestWaveChartsByCoordinate ==
    /\ dispatch.pc = "dispatched"
    /\ ~dispatch.slash
    /\ Len(dispatch.path) = 6
    /\ SubSeq(dispatch.path, 1, 4) = << <<"api">>, <<"latest">>, <<"wave">>, <<"charts">> >>
    => /\ dispatch.match.handler = "closestLatestWaveChartsHandler"
       /\ dispatch.match.vars.lat = dispatch.path[5]
       /\ dispatch.match.vars.lon = dispatch.path[6]

\* what the route registered for closestLatestWaveChartsHandler does match:
\* /api/latest/wave/charts2/2, with lat bound to what follows charts
C12_ChartsPrefix ==
    /\ dispatch.pc = "dispatched"
    /\ dispatch.match.handler = "closestLatestWaveChartsHandler"
    => /\ Len(dispatch.path) = 5
       /\ dispatch.path[4] = <<"charts", "2">>
       /\ dispatch.match.vars.lat = <<"2">>
       /\ dispatch.match.vars.lon = dispatch.path[5]

\* a path value as it is when well formed, and "0" in its place when not
OrZero(value) == IF value \in DOMAIN Numeral THEN value ELSE "0"

\* the request with "0" in place of every malformed {lat}, {lon} and {epoch}
WithZeros(l) ==
    [l EXCEPT !.path.lat = OrZero(l.path.lat), !.path.lon = OrZero(l.path.lon),
              !.path.epoch = OrZero(l.path.epoch)]

\* C13: parameter coercion never rejects a request: a {lat}, {lon} or
\* {epoch} value that is no number counts as 0.  The handler makes its first
\* upstream call, looks for the buoy nearest to the location and asks for the
\* records since the date it would with "0" in the value's place, and ends
\* with the response the request with "0" gets: never with an error about
\* the parameter.
C13_CoercedToZero ==
    \A r \in Requests :
        LET l == req[r]
            z == WithZeros(l)
        IN  l.pc # "idle" /\ l.handler.route \cap {"lat", "lon", "epoch"} # {} =>
                /\ Len(l.calls) >= 1
                /\ "lat" \in l.handler.route =>
                       l.requestedLocation =
                           NewLocationForLatLong(Numeral[z.path.lat], Numeral[z.path.lon])
                /\ "epoch" \in l.handler.route => l.requestedDate = Numeral[z.path.epoch]
                /\ /\ "epoch" \in l.handler.route
                   /\ \E i \in 1..Len(l.calls) : l.calls[i].kind \in DataKinds \ {"directory"}
                   => /\ Count(l.handler, l.started - Numeral[z.path.epoch]) <= l.count
                      /\ l.count <= Count(l.handler, now - Numeral[z.path.epoch])
                /\ Finished(l) =>
                       /\ l.w.panicked \/ l.w.status \in {200, 500}
                       /\ \E encoded \in BOOLEAN, redirect \in BOOLEAN :
                              l.w = AloneResponse(z, encoded, redirect)

\* conditions were reported to a request whose {lat} and {epoch} are no
\* numbers: for latitude 0 and the date of the epoch
C13_Witness ==
    \E r \in Requests :
        LET l == req[r] IN
        /\ ReportsConditions(l)
        /\ l.path.lat = "x"
        /\ l.path.epoch = "x"
        /\ l.w.body.RequestedLocation = ZeroLocation
        /\ l.w.body.RequestedDate = 0

\* the keypoints of the gradient the colour was asked of
Positions == [k \in 1..Len(blend.gradient) |-> blend.gradient[k].Pos]

\* the keypoints never decrease in position
Sorted == \A k \in 1..(Len(Positions) - 1) : Positions[k] <= Positions[k+1]

\* the keypoints increase in position
StrictlySorted == \A k \in 1..(Len(Positions) - 1) : Positions[k] < Positions[k+1]

\* C14: every keypoint of the gradient NewGradient returns has its Pos in
\* the range [0,1].
C14_PositionsInUnitRange ==
    blend.pc = "returned" /\ blend.gradient = NewGradient =>
        \A k \in 1..Len(Positions) : Float(0, 0) <= Positions[k] /\ Positions[k] <= Float(1, 0)

\* where the keypoints of NewGradient do lie: from 3.0 to 13.5
C14_PositionsOfNewGradient ==
    blend.pc = "returned" /\ blend.gradient = NewGradient =>
        \A k \in 1..Len(Positions) : Float(3, 0) <= Positions[k] /\ Positions[k] <= Float(13, 1)

\* C15: for a gradient with sorted keypoints, whenever
\* GetInterpolatedColorFor(t) finds no segment and returns the colour of the
\* last keypoint, t is at or past the position of the last keypoint.
C15_FallThroughIsPastLast ==
    blend.pc = "returned" /\ Sorted /\ ~blend.found =>
        /\ blend.colour = blend.gradient[Len(blend.gradient)].Col
        /\ blend.t >= Positions[Len(Positions)]

\* what does hold when no segment is found in a sorted gradient of two or
\* more keypoints: t is past the last keypoint or before the first
C15_FallThroughIsOutside ==
    blend.pc = "returned" /\ Sorted /\ ~blend.found /\ Len(Positions) >= 2 =>
        \/ blend.t > Positions[Len(Positions)]
        \/ blend.t < Positions[1]

\* C16: the keypoints NewGradient returns are sorted by position in strictly
\* increasing order, so the denominator c2.Pos - c1.Pos of every adjacent
\* pair, and the one GetInterpolatedColorFor divides by, is positive.
C16_NewGradientIncreases ==
    blend.pc = "returned" /\ blend.gradient = NewGradient =>
        /\ \A k \in 1..(Len(Positions) - 1) : Positions[k+1] - Positions[k] > 0
        /\ blend.found => blend.den > 0

\* GetInterpolatedColorFor(13.0) on NewGradient divided by 13.5 - 12.0
C16_Witness ==
    /\ blend.pc = "returned"
    /\ blend.gradient = NewGradient
    /\ blend.t = Float(13, 0)
    /\ blend.found
    /\ blend.index = 9
    /\ blend.num = Float(1, 0)
    /\ blend.den = Float(1, 1)

\* the blend around t: the first index whose segment holds t, the blend
\* parameter in [0,1], and the keypoint's own colour at a keypoint
BlendsAround ==
    /\ blend.found
    /\ Positions[blend.index + 1] <= blend.t
    /\ blend.t <= Positions[blend.index + 2]
    /\ \A i \in 0..(blend.index - 1) : ~(Positions[i+1] <= blend.t /\ blend.t <= Positions[i+2])
    /\ blend.num = blend.t - Positions[blend.index + 1]
    /\ blend.den = Positions[blend.index + 2] - Positions[blend.index + 1]
    /\ blend.den > 0
    /\ 0 <= blend.num
    /\ blend.num <= blend.den
    /\ \A k \in 1..Len(Positions) :
           blend.t = Positions[k] => blend.colour = blend.gradient[k].Col

\* C17 as claimed: for a sorted gradient and any t between the positions of
\* the first and the last keypoint, GetInterpolatedColorFor(t) blends the two
\* keypoints around t.
C17_BlendsWhenSorted ==
    /\ blend.pc = "returned"
    /\ Len(Positions) >= 2
    /\ Sorted
    /\ Positions[1] <= blend.t
    /\ blend.t <= Positions[Len(Positions)]
    => BlendsAround

\* the same for the gradients whose keypoints strictly increase in position,
\* NewGradient among them
C17_BlendsWhenIncreasing ==
    /\ blend.pc = "returned"
    /\ Len(Positions) >= 2
    /\ StrictlySorted
    /\ Positions[1] <= blend.t
    /\ blend.t <= Positions[Len(Positions)]
    => BlendsAround

\* the reading calls of a request have all been made and have all succeeded
ReadingFetched(l) ==
    /\ l.handler.reading # "none"
    /\ \A k \in 1..Len(ReadingKinds(l.handler)) :
           StateOf(l, ReadingKinds(l.handler)[k]) = "ok"

\* C18: handlers fail fast: a data call that failed, a station that is not
\* in the directory and a parse that failed are each the last step of their
\* request: the handler has returned and no upstream call follows.  When the
\* directional spectra fetch fails, the energy spectra are never requested,
\* and the parsing library is called once, exactly when every fetch of the
\* reading has succeeded.
C18_FailFast ==
    \A r \in Requests :
        LET l == req[r]
            c == l.calls
        IN  /\ \A i \in 1..Len(c) :
                   c[i].kind \in DataKinds /\ c[i].state = "err" =>
                       i = Len(c) /\ Finished(l)
            /\ LookupFailed(l) => Len(c) = 1 /\ Finished(l) /\ l.parsed = 0
            /\ ParseFailed(l) =>
                   /\ Finished(l)
                   /\ c[Len(c)].kind \in DataKinds \ {"directory"}
                   /\ \A i \in 1..Len(c) : c[i].kind \notin ChartKinds
            /\ StateOf(l, "directional") = "err" =>
                   CallsOf(l, "energy") = {} /\ l.parsed = 0
            /\ l.parsed = (IF ReadingFetched(l) THEN 1 ELSE 0)

\* the directional spectra fetch failed: the request ended with a 500, the
\* energy spectra were not requested and nothing was parsed
C18_Witness ==
    \E r \in Requests :
        LET l == req[r] IN
        /\ Finished(l)
        /\ l.handler.reading = "detailed"
        /\ StateOf(l, "directional") = "err"
        /\ CallsOf(l, "energy") = {}
        /\ l.parsed = 0
        /\ l.w.status = 500

\* C19: every request to a JSON API handler ends with exactly one response,
\* a 500 error or a 200 JSON body: the handler never returns without one,
\* never panics and never writes twice.
C19_OneResponse ==
    \A r \in Requests :
        LET l == req[r] IN
        Finished(l) /\ l.handler.out = "json" =>
            /\ ~l.w.panicked
            /\ l.w.status \in {200, 500}
            /\ l.w.status = 500 => l.w.body.kind = "error"
            /\ l.w.status = 200 => l.w.sent.contentType = "application/json"

\* the same for every JSON handler but findAllStationsHandler and the chart
\* handlers
C19_ExceptAllStations ==
    \A r \in Requests :
        LET l == req[r] IN
        Finished(l) /\ l.handler.out = "json" /\ l.handler.resolve # "all" /\ ~l.handler.charts =>
            /\ ~l.w.panicked
            /\ l.w.status \in {200, 500}
            /\ l.w.status = 500 => l.w.body.kind = "error"
            /\ l.w.status = 200 => l.w.sent.contentType = "application/json"

\* the reading of a request has been asked for, so count was computed
ReadingRequested(l) ==
    \E i \in 1..Len(l.calls) : l.calls[i].kind \in DataKinds \ {"directory"}

\* C20: in every date endpoint, for every requested epoch that is not later
\* than the time of the request, the record count passed on to the parsing
\* library is at least 1.
C20_CountAtLeastOne ==
    \A r \in Requests :
        LET l == req[r] IN
        /\ "epoch" \in l.handler.route
        /\ ReadingRequested(l)
        /\ l.requestedDate <= l.started
        => l.count >= 1

\* what holds instead: the count is at least 1 once the epoch is a whole
\* hour old
C20_CountAfterAnHour ==
    \A r \in Requests :
        LET l == req[r] IN
        /\ "epoch" \in l.handler.route
        /\ ReadingRequested(l)
        /\ l.requestedDate + TicksPerHour <= l.started
        => l.count >= 1

\* the date endpoints
DateHandlers == {h \in Handlers : "epoch" \in h.route}

\* the date endpoint for the same kind of data (wave, wave charts, weather)
\* that takes a station where h takes a coordinate, or the other way round
Counterpart(h) ==
    CHOOSE other \in DateHandlers :
        /\ other.reading = h.reading
        /\ other.charts = h.charts
        /\ ("lat" \in other.route) # ("lat" \in h.route)

\* the moments at which the handler of a request may have computed count
Moments(l) == {t \in l.started..now : l.count = Count(l.handler, t - l.requestedDate)}

\* C21: for the same requested epoch and the same kind of data, the
\* coordinate date endpoint and the station date endpoint pass the same
\* record count to the parsing library: the count a date request computed is
\* the count its counterpart computes for that epoch at the same moment.
C21_SameCount ==
    \A r \in Requests :
        LET l == req[r] IN
        l.handler \in DateHandlers /\ ReadingRequested(l) =>
            /\ Moments(l) # {}
            /\ \A t \in Moments(l) :
                   Count(Counterpart(l.handler), t - l.requestedDate) = l.count

\* what holds instead: the station endpoint asks for two records an hour,
\* the coordinate endpoint for one
C21_StationCountsTwice ==
    \A r \in Requests :
        LET l == req[r]
            byStation == IF "lat" \in l.handler.route THEN Counterpart(l.handler) ELSE l.handler
            byCoordinate == Counterpart(byStation)
        IN  l.handler \in DateHandlers /\ ReadingRequested(l) =>
                /\ Moments(l) # {}
                /\ \A t \in Moments(l) :
                       LET since == t - l.requestedDate IN
                       /\ Count(byCoordinate, since) = IntOf(since, TicksPerHour)
                       /\ Count(byStation, since) = IntOf(2 * since, TicksPerHour)

\* C22: the chart builders never index out of range: in a chart endpoint and
\* in the buoy page, whatever wave spectra the parsed record carries, the
\* handler gets through fetchDirectionalSpectraChart and
\* fetchSpectraDistributionChart without a panic.
C22_ChartBuildersComplete ==
    \A r \in Requests :
        LET l == req[r] IN
        l.handler.charts /\ l.data # << >> =>
            /\ ~l.w.panicked
            /\ CallsOf(l, "directionalChart") # {}
            /\ Finished(l) => CallsOf(l, "spectraChart") # {}

\* what holds instead: the builders complete when the record has no fewer
\* angles than energies and no fewer energies than frequencies
C22_CompleteWhenLongEnough ==
    \A r \in Requests :
        LET l == req[r]
            spectra == l.item.WaveSpectra
        IN  /\ l.handler.charts
            /\ l.data # << >>
            /\ Len(spectra.Angles) >= Len(spectra.Energies)
            /\ Len(spectra.Energies) >= Len(spectra.Frequencies)
            => /\ ~l.w.panicked
               /\ CallsOf(l, "directionalChart") # {}
               /\ Finished(l) => CallsOf(l, "spectraChart") # {}

\* C23: in every response each plot field is the empty string or the base64
\* of the complete body the chart service sent for this request's own chart
\* call: a plot is there exactly when the call returned and its body was
\* read to the end, whatever the status line said, and a body read in part
\* is never shown.
C23_PlotIsWholeBodyOrEmpty ==
    \A r \in Requests :
        LET l == req[r]
            c == l.calls
            plot(kind) == IF StateOf(l, kind) = "ok" THEN Base64(BodyOf(l, kind)) ELSE ""
        IN  Finished(l) =>
                /\ l.w.body.DirectionalSpectraPlot \in {"", plot("directionalChart")}
                /\ l.w.body.SpectraDistributionPlot \in {"", plot("spectraChart")}
                /\ l.w.status = 200 =>
                       /\ l.w.body.DirectionalSpectraPlot = plot("directionalChart")
                       /\ l.w.body.SpectraDistributionPlot = plot("spectraChart")
                /\ \A i \in 1..Len(c) :
                       c[i].kind \in ChartKinds /\ c[i].state = "readErr" =>
                           /\ l.w.body.DirectionalSpectraPlot # Base64(Partial(c[i].body))
                           /\ l.w.body.SpectraDistributionPlot # Base64(Partial(c[i].body))
                /\ l.w.status # 200 =>
                       /\ l.w.body.DirectionalSpectraPlot = ""
                       /\ l.w.body.SpectraDistributionPlot = ""

\* the chart service answered the directional chart with a server error and
\* a body, which went out whole as the plot; the other chart was read in
\* part and its field is empty
C23_Witness ==
    \E r \in Requests :
        LET l == req[r]
            c == l.calls
        IN  /\ Finished(l)
            /\ l.w.status = 200
            /\ \E i \in CallsOf(l, "directionalChart") :
                   c[i].state = "ok" /\ c[i].status = 500 /\ c[i].body = "pngB"
            /\ \E i \in CallsOf(l, "spectraChart") : c[i].state = "readErr"
            /\ l.w.body.DirectionalSpectraPlot = "cG5nQg=="
            /\ l.w.body.SpectraDistributionPlot = ""

\* the handlers init registers under a route with a literal charts part
ChartRouteHandlers ==
    {Routes[i].handler : i \in {j \in 1..Len(Routes) :
        \E p \in Specifics(Routes[j]) : Routes[j].template[p[1]][p[2]].lit = "charts"}}

\* the handlers init registers under /api
ApiHandlers ==
    {Routes[i].handler : i \in {j \in 1..Len(Routes) :
        Routes[j].template # << >> /\ Routes[j].template[1] = L("api")}}

\* what C24 says of one request: no chart call, both plot fields empty, and
\* for a station endpoint that reports conditions no directory call and the
\* zero value in both locations
NoCharts(l) ==
    /\ \A i \in 1..Len(l.calls) : l.calls[i].kind \notin ChartKinds
    /\ l.w.body.DirectionalSpectraPlot = ""
    /\ l.w.body.SpectraDistributionPlot = ""
    /\ "station" \in l.handler.route /\ ReportsConditions(l) =>
           /\ DirectoryCalls(l) = {}
           /\ l.w.body.RequestedLocation = ZeroLocation
           /\ l.w.body.BuoyLocation = ZeroLocation

\* C24 as claimed: an endpoint without charts in its route never calls the
\* chart service and leaves both plot fields empty, and a station endpoint
\* leaves RequestedLocation and BuoyLocation at their zero values.
C24_NoChartsWithoutChartsRoute ==
    \A r \in Requests :
        req[r].pc # "idle" /\ req[r].handler.name \notin ChartRouteHandlers =>
            NoCharts(req[r])

\* C24 amended: the same for the endpoints under /api; the buoy page
\* /buoy/{station} has no charts in its route and draws both charts.
C24_NoChartsInPlainApi ==
    \A r \in Requests :
        /\ req[r].pc # "idle"
        /\ req[r].handler.name \in ApiHandlers \ ChartRouteHandlers
        => NoCharts(req[r])

\* /api/latest/wave/{station} reported conditions with wave spectra in
\* them: no chart was asked for, both plots are empty and no location is set
C24_Witness ==
    \E r \in Requests :
        LET l == req[r] IN
        /\ ReportsConditions(l)
        /\ l.handler.name = "latestWaveIDHandler"
        /\ l.w.body.BuoyData.WaveSpectra = WaveSpectra(2, 2, 2)
        /\ Len(l.calls) = 2
        /\ l.w.body.DirectionalSpectraPlot = ""
        /\ l.w.body.SpectraDistributionPlot = ""
        /\ l.w.body.BuoyLocation = ZeroLocation

\* C25: the only statuses the handlers write are 200 and 500: a station
\* that is not in the directory ends /api/stationinfo/{station} with 500 and
\* "Could not find the requested buoy", a coordinate with no active wave
\* buoy ends its request with 500 and "Could not find the closest buoy", and
\* no request ends with a 4xx.
C25_Only200And500 ==
    \A r \in Requests :
        LET l == req[r] IN
        /\ l.w.status \in {0, 200, 500}
        /\ Finished(l) /\ ~l.w.panicked => l.w.status \in {200, 500}
        /\ LookupFailed(l) /\ l.handler.resolve = "byid" =>
               /\ Finished(l)
               /\ IsError500(l.w, "Could not find the requested buoy")
        /\ LookupFailed(l) /\ l.handler.resolve = "closest" =>
               /\ Finished(l)
               /\ IsError500(l.w, "Could not find the closest buoy")

\* /api/stationinfo/s9 ended with 500: the directory arrived and has no s9
C25_Witness ==
    \E r \in Requests :
        LET l == req[r] IN
        /\ Finished(l)
        /\ l.handler.name = "findStationInfoHandler"
        /\ l.path.station = "s9"
        /\ Len(l.stations) = 2
        /\ l.w.status = 500
        /\ l.w.body.text = "Could not find the requested buoy"

\* the reading calls of a request of the single-route version
ReadingCalls(l) ==
    {i \in 1..Len(l.calls) : l.calls[i].kind \in {"latest", "detailedWave"}}

\* C26: in closestBuoyDateHandler every request that found its buoy makes
\* exactly one reading call and no request makes more than one; at the
\* moment the call goes out it is for the latest reading when the requested
\* date is less than one hour before now (a future date included) and for
\* the detailed wave history otherwise, so the two are never both fetched.
C26_OneReadingByAge ==
    [][\A r \in Requests :
           LET l == req[r]
               m == req'[r]
           IN  /\ Cardinality(ReadingCalls(m)) <= 1
               /\ m.buoy # NoBuoy => Cardinality(ReadingCalls(m)) = 1
               /\ Finished(m) /\ m.w.status = 200 =>
                      \E i \in ReadingCalls(m) : m.calls[i].state = "ok"
               /\ ReadingCalls(m) # ReadingCalls(l) /\ ReadingCalls(m) # {} =>
                      \A i \in ReadingCalls(m) :
                          m.calls[i].kind =
                              IF now - m.requestedDate < TicksPerHour
                              THEN "latest" ELSE "detailedWave"]_vars

\* a date in the future was answered from the latest reading alone
C26_Witness ==
    \E r \in Requests :
        LET l == req[r] IN
        /\ Finished(l)
        /\ l.handler.name = "closestBuoyDateHandler"
        /\ l.requestedDate > now
        /\ l.w.status = 200
        /\ [i \in 1..Len(l.calls) |-> l.calls[i].kind] = <<"directory", "latest">>

====
